---- MODULE Spec2Model ----
(***************************************************************************)
(* Model of the civil-code RAG question-answering flow                     *)
(* (src/civil_code_rag/graph.py, main.py, config.py).                      *)
(*                                                                         *)
(* The LangGraph state graph built by build_graph is a state machine over  *)
(* the nodes retrieve, grade_documents, rewrite_query and generate, with   *)
(* the conditional edge decide_to_generate after grade_documents.  The     *)
(* read-eval loop of main starts one invocation of the graph per question. *)
(* The external collaborators (vector store retriever, grader LLM,         *)
(* rewriter LLM, generator LLM) are opaque: every result they can return,  *)
(* and their failure, is a nondeterministic choice.                        *)
(*                                                                         *)
(* Strings that the code inspects (the text typed at the prompt) are       *)
(* sequences of one-character strings; passages and answers, which the     *)
(* code only passes along, are atoms.                                      *)
(***************************************************************************)
EXTENDS Integers, Sequences, FiniteSets, TLC

VARIABLES
    pc,         \* main: "input" (at the prompt), "invoke" (inside app.invoke), "exited"
    node,       \* the graph node to run next: "none", a node name, "END" or "raised"
    state,      \* the GraphState dict of the running invocation (key -> value)
    error,      \* the exception that left app.invoke, "none" if there is none
    output,     \* what main printed for the last finished invocation
    trace,      \* history: the nodes executed so far in this invocation
    asked,      \* history: the question main passed to app.invoke
    rewritten,  \* history: the rewriter's outputs in this invocation, in order
    retrieved,  \* history: the documents the most recent retriever.invoke returned
    scores,     \* history: the grader results of the most recent grade_documents
    calls,      \* history: the external calls made by the most recent node
    handed,     \* history: per collaborator, the arguments (and the generator's result)
                \* of its call completed since the most recent retrieval started
    user,       \* pydantic_lab: the User object held, None before the first is accepted
    validation, \* pydantic_lab: the last validation of a User: operation, input, outcome
    files,      \* pydantic_lab: the files that exist, path |-> text
    stdin,      \* pydantic_lab: the text waiting on standard input
    call,       \* pydantic_lab: the last call of read_json_source and what it did
    database,   \* pydantic_lab: the API's _database, id |-> User
    request,    \* pydantic_lab: the last request the API handled
    response,   \* pydantic_lab: the response to it
    firstCreated, \* history: id |-> the User of the first accepted create for the id
    tagsGiven,  \* pydantic_lab: the tags last given to the User validation
    tags,       \* pydantic_lab: the tags of the User after that validation
    payload,    \* rag demo: the payload of the current app.invoke
    demoNode,   \* rag demo: the node to run next, "END", or "failed"
    ragState,   \* rag demo: the channels of the graph's RagState
    flows       \* two invocations of the compiled graph with interleaved steps:
                \* per invocation its node, its GraphState and the history of its own calls

\* the variables of the question-answering flow driven by main
ragVars == <<pc, node, state, error, output, trace, asked, rewritten, retrieved, scores,
             calls, handed>>

\* the variables of the interleaved invocations
concVars == <<flows>>

\* the variables of the User model of pydantic_lab
userVars == <<user, validation>>

\* the variables of the command line tool of pydantic_lab
cliVars == <<files, stdin, call>>

\* the variables of the API of pydantic_lab
apiVars == <<database, request, response, firstCreated>>

\* the variables of the tags of the User model
tagVars == <<tagsGiven, tags>>

\* the variables of the offline RAG demo
demoVars == <<payload, demoNode, ragState>>

\* the variables of pydantic_lab
labVars == <<userVars, cliVars, apiVars, tagVars, demoVars>>

\* the variables that main and the nodes it runs leave alone
otherVars == <<concVars, labVars>>

vars == <<ragVars, otherVars>>

----------------------------------------------------------------------------
(* Bounds and input alphabets                                              *)

\* the largest number of documents the retriever returns for one query
MaxDocs == 2

\* config.py: MAX_RETRIES = 3
MAX_RETRIES == 3

\* the passages of the index
Passages == {"p1", "p2"}

\* every document list the retriever can return
DocLists == UNION {[1..n -> Passages] : n \in 0..MaxDocs}

\* lines typed at the prompt of main
Inputs == { <<"a">>, <<" ", "q">>, <<"Q">>, <<"E", "x", "i", "t">>,
            <<"q", "u", "i", "t">>, <<>>, <<" ", "\t">> }

\* texts the rewriter LLM can answer with
RewriteOutputs == { <<"a">>, <<"c">> }

\* texts the generator LLM can answer with
Answers == {"answer", "dont_know"}

\* results of grader.invoke: None, or a GradeDocuments object
None == <<>>
GradeDocuments(binary_score) == <<binary_score>>
GraderResults == {None, GradeDocuments("yes"), GradeDocuments("no"), GradeDocuments("Yes")}

----------------------------------------------------------------------------
(* Python helpers                                                          *)

\* the letters with a lowercase form, and their lowercase forms
UpperLetters ==
    <<"A", "B", "C", "D", "E", "F", "G", "H", "I", "J", "K", "L", "M",
      "N", "O", "P", "Q", "R", "S", "T", "U", "V", "W", "X", "Y", "Z">>
LowerLetters ==
    <<"a", "b", "c", "d", "e", "f", "g", "h", "i", "j", "k", "l", "m",
      "n", "o", "p", "q", "r", "s", "t", "u", "v", "w", "x", "y", "z">>

\* str.lower on one character
LowerChar(c) ==
    IF \E i \in 1..Len(UpperLetters) : UpperLetters[i] = c
    THEN LowerLetters[CHOOSE i \in 1..Len(UpperLetters) : UpperLetters[i] = c]
    ELSE c

\* str.lower
lower(s) == [i \in 1..Len(s) |-> LowerChar(s[i])]

Whitespace == {" ", "\t"}

RECURSIVE lstrip(_)
lstrip(s) ==
    IF s # <<>> /\ Head(s) \in Whitespace THEN lstrip(Tail(s)) ELSE s

RECURSIVE rstrip(_)
rstrip(s) ==
    IF s # <<>> /\ s[Len(s)] \in Whitespace THEN rstrip(SubSeq(s, 1, Len(s) - 1)) ELSE s

\* str.strip
strip(s) == rstrip(lstrip(s))

\* the set of the elements of a list
Range(seq) == {seq[i] : i \in 1..Len(seq)}

\* dict.get(key, default)
Get(d, key, default) == IF key \in DOMAIN d THEN d[key] ELSE default

\* variant of Merge: the documents key has an adding reducer, a returned list is
\* appended to the state's list
Merge_add(d, update) ==
    [k \in DOMAIN d \cup DOMAIN update |->
        IF k \in DOMAIN update
        THEN IF k = "documents" /\ k \in DOMAIN d THEN d[k] \o update[k] ELSE update[k]
        ELSE d[k]]

\* LangGraph applies a node's returned dict to the state: each returned key
\* overwrites the state's value, every other key keeps its value
Merge(d, update) ==
    [k \in DOMAIN d \cup DOMAIN update |-> IF k \in DOMAIN update THEN update[k] ELSE d[k]]

----------------------------------------------------------------------------
(* The node functions of graph.py; the result of the external call each    *)
(* makes is a parameter                                                    *)

\* variant of retrieve: retry_count is not carried over
retrieve_resets(s, documents) ==
    [documents |-> documents,
     question |-> s["question"],
     retry_count |-> 0]

\* retrieve(state), documents = retriever.invoke(question)
retrieve(s, documents) ==
    [documents |-> documents,
     question |-> s["question"],
     retry_count |-> Get(s, "retry_count", 0)]

\* variant of the loop: a relevant document is put in front of filtered_docs
RECURSIVE GradeLoop_prepend(_, _, _, _)
GradeLoop_prepend(documents, results, i, filtered_docs) ==
    IF i > Len(documents) THEN filtered_docs
    ELSE IF results[i] = None
         THEN GradeLoop_prepend(documents, results, i + 1, filtered_docs)
         ELSE IF results[i][1] = "yes"
              THEN GradeLoop_prepend(documents, results, i + 1,
                                     <<documents[i]>> \o filtered_docs)
              ELSE GradeLoop_prepend(documents, results, i + 1, filtered_docs)

\* variant of the loop: only an explicit grade other than "yes" drops a document
RECURSIVE GradeLoop_nonekept(_, _, _, _)
GradeLoop_nonekept(documents, results, i, filtered_docs) ==
    IF i > Len(documents) THEN filtered_docs
    ELSE IF results[i] # None /\ results[i][1] # "yes"
         THEN GradeLoop_nonekept(documents, results, i + 1, filtered_docs)
         ELSE GradeLoop_nonekept(documents, results, i + 1,
                                 Append(filtered_docs, documents[i]))

\* the loop of grade_documents over documents[i..], filtered_docs so far
RECURSIVE GradeLoop(_, _, _, _)
GradeLoop(documents, results, i, filtered_docs) ==
    IF i > Len(documents) THEN filtered_docs
    ELSE IF results[i] = None
         THEN GradeLoop(documents, results, i + 1, filtered_docs)
         ELSE IF results[i][1] = "yes"
              THEN GradeLoop(documents, results, i + 1, Append(filtered_docs, documents[i]))
              ELSE GradeLoop(documents, results, i + 1, filtered_docs)

\* grade_documents(state), results[i] = grader.invoke(question, documents[i])
grade_documents(s, results) ==
    [documents |-> GradeLoop(s["documents"], results, 1, <<>>),
     question |-> s["question"]]

\* variant of generate: an empty context gets a fixed fallback answer
generate_fallback(s, generation) ==
    [documents |-> s["documents"],
     question |-> s["question"],
     generation |-> IF s["documents"] = <<>> THEN "dont_know" ELSE generation]

\* generate(state), generation = rag_chain.invoke(context, question)
generate(s, generation) ==
    [documents |-> s["documents"],
     question |-> s["question"],
     generation |-> generation]

\* variant of rewrite_query: the old question is returned
rewrite_query_keeps(s, better_question) ==
    [question |-> s["question"],
     retry_count |-> Get(s, "retry_count", 0) + 1]

\* rewrite_query(state), better_question = llm.invoke(msg).content
rewrite_query(s, better_question) ==
    [question |-> better_question,
     retry_count |-> Get(s, "retry_count", 0) + 1]

\* variant of decide_to_generate: the ceiling test is <= instead of <
decide_to_generate_le(s) ==
    IF s["documents"] = <<>>
    THEN IF Get(s, "retry_count", 0) <= MAX_RETRIES
         THEN "rewrite_query"
         ELSE "generate"
    ELSE "generate"

\* variant of decide_to_generate: the ceiling is ignored
decide_to_generate_noceiling(s) ==
    IF s["documents"] = <<>> THEN "rewrite_query" ELSE "generate"

\* variant of decide_to_generate: the ceiling is reached one retry early
decide_to_generate_early(s) ==
    IF s["documents"] = <<>>
    THEN IF Get(s, "retry_count", 0) < MAX_RETRIES - 1
         THEN "rewrite_query"
         ELSE "generate"
    ELSE "generate"

\* variant of decide_to_generate: a single relevant document is not enough
decide_to_generate_two(s) ==
    IF Len(s["documents"]) < 2
    THEN IF Get(s, "retry_count", 0) < MAX_RETRIES
         THEN "rewrite_query"
         ELSE "generate"
    ELSE "generate"

\* decide_to_generate(state): the name of the next node
decide_to_generate(s) ==
    IF s["documents"] = <<>>
    THEN IF Get(s, "retry_count", 0) < MAX_RETRIES
         THEN "rewrite_query"
         ELSE "generate"
    ELSE "generate"

\* the mapping of add_conditional_edges from decide_to_generate's result to a node
ConditionalEdge(result) ==
    CASE result = "rewrite_query" -> "rewrite_query"
      [] result = "generate" -> "generate"

\* variant of the edges: generate is followed by another grading
Edge_regrade(n) ==
    CASE n = "retrieve" -> "grade_documents"
      [] n = "rewrite_query" -> "retrieve"
      [] n = "generate" -> "grade_documents"

\* variant of the edges: the rewritten query goes to grading without a retrieval
Edge_skipretrieve(n) ==
    CASE n = "retrieve" -> "grade_documents"
      [] n = "rewrite_query" -> "grade_documents"
      [] n = "generate" -> "END"

\* the edges of add_edge: the node that follows node n
Edge(n) ==
    CASE n = "retrieve" -> "grade_documents"
      [] n = "rewrite_query" -> "retrieve"
      [] n = "generate" -> "END"

\* variant: the node whose call raised is run again
OnNodeException_retry(n) == n

\* the nodes are added without a retry policy: an exception raised in node n
\* is not retried, it leaves app.invoke
OnNodeException(n) == "raised"

\* variant of InitialState: the values of the earlier invocation are restored
\* and the inputs written over them
InitialState_restored(previous, inputs) == Merge(previous, inputs)

\* app.invoke(inputs): the graph is compiled without a checkpointer, so an
\* invocation starts from its inputs alone, whatever state the invocation
\* before it ended with
InitialState(previous, inputs) == inputs

\* the names of the two interleaved invocations
Invocations == {"A", "B"}

\* the document lists the retriever returns in the interleaved invocations
ConcDocLists == { <<>>, <<"p1">>, <<"p2", "p1">> }

\* an invocation that has not started; query, rewrites and answer are the
\* history of its own calls: the question after its own rewrites, the number
\* of its own rewrites, the text its own generator call returned
IdleFlow ==
    [node |-> "none", state |-> <<>>, asked |-> <<>>, query |-> <<>>, rewrites |-> 0,
     answer |-> "none"]

----------------------------------------------------------------------------
(* main.py and the graph of build_graph                                    *)

\* main: the words that end the program
QuitWords == { <<"q">>, <<"q", "u", "i", "t">>, <<"e", "x", "i", "t">> }

\* one external call, as logged in calls
Call(fn, question, document) == [fn |-> fn, question |-> question, document |-> document]

\* variant of the grader calls: the loop is left after its first pass
GraderCalls_firstonly(s, n) ==
    [i \in 1..(IF n = 0 THEN 0 ELSE 1) |-> Call("grader", s["question"], s["documents"][i])]

\* the grader calls of grade_documents for documents[1..n]
GraderCalls(s, n) == [i \in 1..n |-> Call("grader", s["question"], s["documents"][i])]

Init ==
    /\ pc = "input"
    /\ node = "none"
    /\ state = <<>>
    /\ error = "none"
    /\ output = <<>>
    /\ trace = <<>>
    /\ asked = <<>>
    /\ rewritten = <<>>
    /\ retrieved = <<>>
    /\ scores = <<>>
    /\ calls = <<>>
    /\ handed = <<>>
    /\ flows = [i \in Invocations |-> IdleFlow]
    /\ user = None
    /\ files = <<>>
    /\ stdin = ""
    /\ call = [op |-> "none"]
    /\ database = <<>>
    /\ request = [op |-> "none"]
    /\ response = [status |-> 0, user |-> None, detail |-> ""]
    /\ firstCreated = <<>>
    /\ tagsGiven = <<>>
    /\ tags = <<>>
    /\ payload = <<>>
    /\ demoNode = "none"
    /\ ragState = <<>>
    /\ validation = [op |-> "none", input |-> <<>>, outcome |-> "none"]

\* main, lines 18-30: read a line; quit, skip a blank line, or invoke the graph
\* with inputs = {"question": question} at its entry point
ReadInput ==
    /\ pc = "input"
    /\ \E question \in Inputs :
         IF lower(question) \in QuitWords
         THEN /\ pc' = "exited"
              /\ UNCHANGED <<node, state, error, output, trace, asked, rewritten,
                             retrieved, scores, calls, handed>>
         ELSE IF strip(question) = <<>>
         THEN UNCHANGED vars
         ELSE /\ pc' = "invoke"
              /\ node' = "retrieve"
              /\ state' = InitialState(state, [question |-> question])
              /\ error' = "none"
              /\ output' = <<>>
              /\ trace' = <<>>
              /\ asked' = question
              /\ rewritten' = <<>>
              /\ retrieved' = <<>>
              /\ scores' = <<>>
              /\ calls' = <<>>
              /\ handed' = <<>>
    /\ UNCHANGED otherVars

\* node retrieve, then the edge retrieve -> grade_documents
Retrieve ==
    /\ pc = "invoke"
    /\ node = "retrieve"
    /\ \E documents \in DocLists :
         /\ state' = Merge(state, retrieve(state, documents))
         /\ retrieved' = documents
    /\ node' = Edge("retrieve")
    /\ trace' = Append(trace, "retrieve")
    /\ calls' = <<Call("retriever", state["question"], "-")>>
    /\ handed' = [retriever |-> [question |-> state["question"]]]
    /\ UNCHANGED <<pc, error, output, asked, rewritten, scores>>
    /\ UNCHANGED otherVars

\* retriever.invoke raises: the exception leaves app.invoke
RetrieveRaises ==
    /\ pc = "invoke"
    /\ node = "retrieve"
    /\ node' = OnNodeException("retrieve")
    /\ error' = "retrieve"
    /\ calls' = <<Call("retriever", state["question"], "-")>>
    /\ UNCHANGED <<pc, state, output, trace, asked, rewritten, retrieved, scores,
                   handed>>
    /\ UNCHANGED otherVars

\* node grade_documents; the conditional edge is evaluated next
GradeDocumentsNode ==
    /\ pc = "invoke"
    /\ node = "grade_documents"
    /\ \E results \in [1..Len(state["documents"]) -> GraderResults] :
         /\ state' = Merge(state, grade_documents(state, results))
         /\ scores' = results
    /\ node' = "decide_to_generate"
    /\ trace' = Append(trace, "grade_documents")
    /\ calls' = GraderCalls(state, Len(state["documents"]))
    /\ handed' = IF state["documents"] = <<>> THEN handed
                 ELSE Merge(handed, [grader |-> [question |-> state["question"]]])
    /\ UNCHANGED <<pc, error, output, asked, rewritten, retrieved>>
    /\ UNCHANGED otherVars

\* grader.invoke raises for the i-th document: the exception leaves app.invoke
GradeDocumentsRaises ==
    /\ pc = "invoke"
    /\ node = "grade_documents"
    /\ \E i \in 1..Len(state["documents"]) :
         calls' = GraderCalls(state, i)
    /\ node' = OnNodeException("grade_documents")
    /\ error' = "grade_documents"
    /\ UNCHANGED <<pc, state, output, trace, asked, rewritten, retrieved, scores,
                   handed>>
    /\ UNCHANGED otherVars

\* the conditional edge after grade_documents
Decide ==
    /\ pc = "invoke"
    /\ node = "decide_to_generate"
    /\ node' = ConditionalEdge(decide_to_generate(state))
    /\ trace' = Append(trace, "decide_to_generate")
    /\ calls' = <<>>
    /\ UNCHANGED <<pc, state, error, output, asked, rewritten, retrieved, scores,
                   handed>>
    /\ UNCHANGED otherVars

\* node rewrite_query, then the edge rewrite_query -> retrieve
RewriteQuery ==
    /\ pc = "invoke"
    /\ node = "rewrite_query"
    /\ \E better_question \in RewriteOutputs :
         /\ state' = Merge(state, rewrite_query(state, better_question))
         /\ rewritten' = Append(rewritten, better_question)
    /\ node' = Edge("rewrite_query")
    /\ trace' = Append(trace, "rewrite_query")
    /\ calls' = <<Call("rewriter", state["question"], "-")>>
    /\ handed' = Merge(handed, [rewriter |-> [question |-> state["question"]]])
    /\ UNCHANGED <<pc, error, output, asked, retrieved, scores>>
    /\ UNCHANGED otherVars

\* llm.invoke raises in rewrite_query
RewriteQueryRaises ==
    /\ pc = "invoke"
    /\ node = "rewrite_query"
    /\ node' = OnNodeException("rewrite_query")
    /\ error' = "rewrite_query"
    /\ calls' = <<Call("rewriter", state["question"], "-")>>
    /\ UNCHANGED <<pc, state, output, trace, asked, rewritten, retrieved, scores,
                   handed>>
    /\ UNCHANGED otherVars

\* node generate, then the edge generate -> END
Generate ==
    /\ pc = "invoke"
    /\ node = "generate"
    /\ \E generation \in Answers :
         /\ state' = Merge(state, generate(state, generation))
         /\ handed' = Merge(handed, [generator |-> [question |-> state["question"],
                                                    context |-> state["documents"],
                                                    result |-> generation]])
    /\ node' = Edge("generate")
    /\ trace' = Append(trace, "generate")
    /\ calls' = <<Call("generator", state["question"], "-")>>
    /\ UNCHANGED <<pc, error, output, asked, rewritten, retrieved, scores>>
    /\ UNCHANGED otherVars

\* rag_chain.invoke raises in generate
GenerateRaises ==
    /\ pc = "invoke"
    /\ node = "generate"
    /\ node' = OnNodeException("generate")
    /\ error' = "generate"
    /\ calls' = <<Call("generator", state["question"], "-")>>
    /\ UNCHANGED <<pc, state, output, trace, asked, rewritten, retrieved, scores,
                   handed>>
    /\ UNCHANGED otherVars

\* main, lines 30-35: app.invoke returns the final state, main prints its generation
PrintAnswer ==
    /\ pc = "invoke"
    /\ node = "END"
    /\ output' = <<"answer", state["generation"]>>
    /\ pc' = "input"
    /\ UNCHANGED <<node, state, error, trace, asked, rewritten, retrieved, scores, calls,
                   handed>>
    /\ UNCHANGED otherVars

\* main, lines 40-41: except Exception prints the error and the loop goes on
HandleError ==
    /\ pc = "invoke"
    /\ node = "raised"
    /\ output' = <<"error", error>>
    /\ pc' = "input"
    /\ UNCHANGED <<node, state, error, trace, asked, rewritten, retrieved, scores, calls,
                   handed>>
    /\ UNCHANGED otherVars

\* main, lines 37-39: Ctrl-C at the prompt or during app.invoke ends the program
KeyboardInterrupt ==
    /\ pc \in {"input", "invoke"}
    /\ pc' = "exited"
    /\ UNCHANGED <<node, state, error, output, trace, asked, rewritten, retrieved,
                   scores, calls, handed>>
    /\ UNCHANGED otherVars

Next ==
    \/ ReadInput
    \/ Retrieve
    \/ RetrieveRaises
    \/ GradeDocumentsNode
    \/ GradeDocumentsRaises
    \/ Decide
    \/ RewriteQuery
    \/ RewriteQueryRaises
    \/ Generate
    \/ GenerateRaises
    \/ PrintAnswer
    \/ HandleError
    \/ KeyboardInterrupt

Spec == Init /\ [][Next]_vars

\* The controller runs one step at a time and waits for each external call:
\* a node whose call returns is executed.
Fairness ==
    /\ WF_vars(Retrieve)
    /\ WF_vars(GradeDocumentsNode)
    /\ WF_vars(Decide)
    /\ WF_vars(RewriteQuery)
    /\ WF_vars(Generate)

LiveSpec == Init /\ [][Next]_vars /\ Fairness


----------------------------------------------------------------------------
(* Two invocations of the compiled graph whose steps interleave: app.invoke *)
(* called for two questions at a time, each call with its own GraphState.   *)
(* The nodes are the same functions; each reads and returns the state of    *)
(* its own invocation only.                                                 *)

\* app.invoke({"question": question}) is called for invocation i, for the first
\* time or after its earlier call has ended
ConcStart(i) ==
    /\ flows[i].node \in {"none", "END", "raised"}
    /\ \E question \in Inputs :
         /\ lower(question) \notin QuitWords
         /\ strip(question) # <<>>
         /\ flows' = [flows EXCEPT ![i] =
                [node |-> "retrieve",
                 state |-> InitialState(flows[i].state, [question |-> question]),
                 asked |-> question,
                 query |-> question,
                 rewrites |-> 0,
                 answer |-> "none"]]
    /\ UNCHANGED <<ragVars, labVars>>

ConcRetrieve(i) ==
    /\ flows[i].node = "retrieve"
    /\ \E documents \in ConcDocLists :
         flows' = [flows EXCEPT ![i].state = Merge(@, retrieve(@, documents)),
                                ![i].node = Edge("retrieve")]
    /\ UNCHANGED <<ragVars, labVars>>

ConcGradeDocuments(i) ==
    /\ flows[i].node = "grade_documents"
    /\ \E results \in [1..Len(flows[i].state["documents"]) -> GraderResults] :
         flows' = [flows EXCEPT ![i].state = Merge(@, grade_documents(@, results)),
                                ![i].node = "decide_to_generate"]
    /\ UNCHANGED <<ragVars, labVars>>

ConcDecide(i) ==
    /\ flows[i].node = "decide_to_generate"
    /\ flows' = [flows EXCEPT
                    ![i].node = ConditionalEdge(decide_to_generate(flows[i].state))]
    /\ UNCHANGED <<ragVars, labVars>>

ConcRewriteQuery(i) ==
    /\ flows[i].node = "rewrite_query"
    /\ \E better_question \in RewriteOutputs :
         flows' = [flows EXCEPT ![i].state = Merge(@, rewrite_query(@, better_question)),
                                ![i].node = Edge("rewrite_query"),
                                ![i].query = better_question,
                                ![i].rewrites = @ + 1]
    /\ UNCHANGED <<ragVars, labVars>>

ConcGenerate(i) ==
    /\ flows[i].node = "generate"
    /\ \E generation \in Answers :
         flows' = [flows EXCEPT ![i].state = Merge(@, generate(@, generation)),
                                ![i].node = Edge("generate"),
                                ![i].answer = generation]
    /\ UNCHANGED <<ragVars, labVars>>

\* the external call of the node of invocation i raises
ConcRaises(i) ==
    /\ flows[i].node \in {"retrieve", "rewrite_query", "generate"}
       \/ (flows[i].node = "grade_documents" /\ flows[i].state["documents"] # <<>>)
    /\ flows' = [flows EXCEPT ![i].node = OnNodeException(flows[i].node)]
    /\ UNCHANGED <<ragVars, labVars>>

ConcNext ==
    \E i \in Invocations :
        \/ ConcStart(i)
        \/ ConcRetrieve(i)
        \/ ConcGradeDocuments(i)
        \/ ConcDecide(i)
        \/ ConcRewriteQuery(i)
        \/ ConcGenerate(i)
        \/ ConcRaises(i)

ConcSpec == Init /\ [][ConcNext]_vars


----------------------------------------------------------------------------
(* pydantic_lab/models.py: the User model                                  *)

\* the longest name given to the validation
MaxNameLen == 3

\* the characters of the names
NameChars == {" ", "\t", "A"}

\* the names given to the validation
NameInputs == UNION {[1..n -> NameChars] : n \in 0..MaxNameLen}

\* the ids given to the validation
IdInputs == {0, 1, 2}

\* the email texts given to the validation; EmailStr accepts the first only
EmailInputs == {"alice@example.com", "not-an-email"}
ValidEmails == {"alice@example.com"}

\* an Optional value that is present
Some(x) == <<x>>

\* a call that returned value / a call that raised an exception of this kind
Return(value) == <<"return", value>>
Raise(kind) == <<"raise", kind>>

\* variant of strip_name: the emptiness test is missing
strip_name_nocheck(value) == Return(strip(value))

\* User.strip_name(value): cleaned = value.strip(); raise ValueError if not cleaned
strip_name(value) ==
    LET cleaned == strip(value) IN
    IF cleaned = <<>> THEN Raise("ValueError") ELSE Return(cleaned)

\* the validation of the field name: the str constraint min_length=1 on the
\* value as given, then the field validator strip_name
ValidateName(value) ==
    IF Len(value) < 1 THEN Raise("ValidationError")
    ELSE LET r == strip_name(value) IN
         IF r[1] = "raise" THEN Raise("ValidationError") ELSE r

\* User(**data) / User.model_validate_json: id >= 1, name, email as EmailStr
ValidateUser(data) ==
    LET name == ValidateName(data.name) IN
    IF data.id < 1 \/ name[1] = "raise" \/ data.email \notin ValidEmails
    THEN Raise("ValidationError")
    ELSE Return([id |-> data.id, name |-> name[2], email |-> data.email])

\* cli.validate_user(json_text) or User(...): a User is constructed from data;
\* a rejected construction yields no object, the one held stays
ConstructUser ==
    /\ \E data \in [id : IdInputs, name : NameInputs, email : EmailInputs] :
         LET r == ValidateUser(data) IN
         /\ validation' = [op |-> "construct", input |-> data.name,
                           outcome |-> IF r[1] = "raise" THEN r[2] ELSE "ok"]
         /\ user' = IF r[1] = "raise" THEN user ELSE Some(r[2])
    /\ UNCHANGED <<ragVars, concVars, demoVars, tagVars, cliVars, apiVars>>

\* user.name = value, with validate_assignment=True: the field is validated
\* again; a rejected value raises and the attribute keeps its value
AssignName ==
    /\ user # None
    /\ \E value \in NameInputs :
         LET r == ValidateName(value) IN
         /\ validation' = [op |-> "assign", input |-> value,
                           outcome |-> IF r[1] = "raise" THEN r[2] ELSE "ok"]
         /\ user' = IF r[1] = "raise" THEN user
                    ELSE Some([user[1] EXCEPT !.name = r[2]])
    /\ UNCHANGED <<ragVars, concVars, demoVars, tagVars, cliVars, apiVars>>

UserNext ==
    \/ ConstructUser
    \/ AssignName

UserSpec == Init /\ [][UserNext]_vars

----------------------------------------------------------------------------
(* pydantic_lab/cli.py: read_json_source                                   *)

\* the paths given with -f, the texts of files, of -j and of standard input
Paths == {"a.json", "b.json"}
FileTexts == {"file-1", "file-2"}
InlineTexts == {"", "inline-1", "inline-2"}
StdinTexts == {"", "stdin-1", "stdin-2"}

\* the file systems: the existing paths with their text
FileSystems == UNION {[existing -> FileTexts] : existing \in SUBSET Paths}

\* an Optional argument: None, or the value passed
Optional(values) == {None} \cup {Some(v) : v \in values}

\* bool(path) of an Optional[Path]: a Path object is always true
PathTruthy(path) == path # None

\* bool(inline_json) of an Optional[str]: None and "" are false
StrTruthy(inline_json) == inline_json # None /\ inline_json[1] # ""

\* read_json_source(path, inline_json) with these files and this standard
\* input: what it returns or raises, which sources it read, and the text
\* left waiting on standard input (sys.stdin.read() consumes all of it)
read_json_source(path, inline_json, fs, input) ==
    IF PathTruthy(path) /\ StrTruthy(inline_json)
    THEN [result |-> Raise("ValueError"), reads |-> {}, stdin |-> input]
    ELSE IF StrTruthy(inline_json)
    THEN [result |-> Return(inline_json[1]), reads |-> {}, stdin |-> input]
    ELSE IF PathTruthy(path)
    THEN IF path[1] \notin DOMAIN fs
         THEN [result |-> Raise("FileNotFoundError"), reads |-> {}, stdin |-> input]
         ELSE [result |-> Return(fs[path[1]]), reads |-> {"file"}, stdin |-> input]
    ELSE [result |-> Return(input), reads |-> {"stdin"}, stdin |-> ""]

\* the user prepares the files and the standard input of the next run
PrepareEnvironment ==
    /\ files' \in FileSystems
    /\ stdin' \in StdinTexts
    /\ UNCHANGED <<ragVars, concVars, demoVars, tagVars, userVars, apiVars, call>>

\* main: read_json_source(args.file, args.json)
ReadJsonSource ==
    /\ \E path \in Optional(Paths), inline_json \in Optional(InlineTexts) :
         LET r == read_json_source(path, inline_json, files, stdin) IN
         /\ call' = [op |-> "read_json_source", path |-> path,
                     inline_json |-> inline_json, files |-> files, stdin |-> stdin,
                     result |-> r.result, reads |-> r.reads]
         /\ stdin' = r.stdin
    /\ UNCHANGED <<ragVars, concVars, demoVars, tagVars, userVars, apiVars, files>>

CliNext ==
    \/ PrepareEnvironment
    \/ ReadJsonSource

CliSpec == Init /\ [][CliNext]_vars

----------------------------------------------------------------------------
(* pydantic_lab/api.py: the in-memory user store                           *)

\* the names in the bodies of POST /users
ApiNames == { <<"A">>, <<" ", "A">>, <<"A", "A">>, <<" ">> }

\* the bodies of POST /users
ApiBodies == [id : IdInputs, name : ApiNames, email : EmailInputs]

\* the ids asked of GET /users/{user_id}
ApiIds == IdInputs \cup {3}

\* a response: the user returned, or the detail of the HTTPException
Ok(u) == [status |-> 200, user |-> Some(u), detail |-> ""]
HTTPException(status_code, detail) ==
    [status |-> status_code, user |-> None, detail |-> detail]

\* variant of create_user: the test for an existing id is missing
create_user_overwrite(db, u) ==
    [database |-> [i \in DOMAIN db \cup {u.id} |-> IF i = u.id THEN u ELSE db[i]],
     response |-> Ok(u)]

\* create_user(user) on the store db: the store after it and the response
create_user(db, u) ==
    IF u.id \in DOMAIN db
    THEN [database |-> db, response |-> HTTPException(400, "User already exists")]
    ELSE [database |-> [i \in DOMAIN db \cup {u.id} |-> IF i = u.id THEN u ELSE db[i]],
          response |-> Ok(u)]

\* get_user(user_id) on the store db: the store after it and the response
get_user(db, user_id) ==
    IF user_id \in DOMAIN db
    THEN [database |-> db, response |-> Ok(db[user_id])]
    ELSE [database |-> db, response |-> HTTPException(404, "User not found")]

\* POST /users: the body is validated as a User (422 when rejected, the
\* handler is not entered), then create_user runs
CreateUser ==
    /\ \E body \in ApiBodies :
         LET v == ValidateUser(body) IN
         /\ request' = [op |-> "create", body |-> body]
         /\ IF v[1] = "raise"
            THEN /\ response' = HTTPException(422, "ValidationError")
                 /\ UNCHANGED <<database, firstCreated>>
            ELSE LET r == create_user(database, v[2]) IN
                 /\ database' = r.database
                 /\ response' = r.response
                 /\ firstCreated' =
                        IF v[2].id \in DOMAIN firstCreated THEN firstCreated
                        ELSE [i \in DOMAIN firstCreated \cup {v[2].id} |->
                                 IF i = v[2].id THEN v[2] ELSE firstCreated[i]]
    /\ UNCHANGED <<ragVars, concVars, demoVars, tagVars, userVars, cliVars>>

\* GET /users/{user_id}
GetUser ==
    /\ \E user_id \in ApiIds :
         LET r == get_user(database, user_id) IN
         /\ request' = [op |-> "get", user_id |-> user_id]
         /\ database' = r.database
         /\ response' = r.response
    /\ UNCHANGED <<ragVars, concVars, demoVars, tagVars, userVars, cliVars, firstCreated>>

ApiNext ==
    \/ CreateUser
    \/ GetUser

ApiSpec == Init /\ [][ApiNext]_vars

----------------------------------------------------------------------------
(* pydantic_lab/models.py: the tags of the User model                      *)

\* the longest list of tags given to the validation
MaxTags == 4

\* the tags; "A" and "a" differ, the validation of User does not lowercase
TagNames == {"a", "b", "A"}

\* the lists of tags given to the validation
TagLists == UNION {[1..n -> TagNames] : n \in 0..MaxTags}

\* variant of the loop of unique_tags: a repeated tag moves to the end
RECURSIVE UniqueLoop_keeplast(_, _, _)
UniqueLoop_keeplast(value, i, seen) ==
    IF i > Len(value) THEN seen
    ELSE UniqueLoop_keeplast(value, i + 1,
             Append(SelectSeq(seen, LAMBDA t : t # value[i]), value[i]))

\* the loop of unique_tags from the i-th tag on: for tag in value:
\* if tag not in seen: seen.append(tag)
RECURSIVE UniqueLoop(_, _, _)
UniqueLoop(value, i, seen) ==
    IF i > Len(value) THEN seen
    ELSE UniqueLoop(value, i + 1,
             IF value[i] \notin Range(seen) THEN Append(seen, value[i]) ELSE seen)

\* User.unique_tags(value): seen = []; the loop; return seen
unique_tags(value) == UniqueLoop(value, 1, <<>>)

\* User(..., tags=value): the tags of the new User are the validated ones
ConstructWithTags ==
    /\ \E value \in TagLists :
         /\ tagsGiven' = value
         /\ tags' = unique_tags(value)
    /\ UNCHANGED <<ragVars, concVars, demoVars, userVars, cliVars, apiVars>>

\* user.tags = user.tags + [tag], with validate_assignment=True: the new
\* list is validated again
AssignTags ==
    /\ Len(tags) < MaxTags
    /\ \E tag \in TagNames :
         /\ tagsGiven' = Append(tags, tag)
         /\ tags' = unique_tags(Append(tags, tag))
    /\ UNCHANGED <<ragVars, concVars, demoVars, userVars, cliVars, apiVars>>

\* User.model_validate(user.model_dump()): the validation is applied to its
\* own result
Revalidate ==
    /\ tagsGiven' = tags
    /\ tags' = unique_tags(tags)
    /\ UNCHANGED <<ragVars, concVars, demoVars, userVars, cliVars, apiVars>>

TagsNext ==
    \/ ConstructWithTags
    \/ AssignTags
    \/ Revalidate

TagsSpec == Init /\ [][TagsNext]_vars

----------------------------------------------------------------------------
(* pydantic_lab/langgraph_rag_demo.py: the offline RAG demo. A text is the *)
(* list of its characters; a character outside ASCII is written as its     *)
(* code point, "u" and four hexadecimal digits.                            *)

\* CORPUS[1]
Doc1 ==
    [title |->
        <<"L", "a", "n", "g", "G", "r", "a", "p", "h", " ", "u7b80", "u4ecb">>,
     content |->
        <<"L", "a", "n", "g", "G", "r", "a", "p", "h", " ", "u662f", "u4e00",
          "u4e2a", "u6784", "u5efa", "u6709", "u72b6", "u6001", "u56fe",
          "u5f0f", "u4ee3", "u7406", "u7684", "u5e93", "uff0c", "u652f",
          "u6301", "u8282", "u70b9", "u3001", "u8fb9", "u4e0e", "u72b6",
          "u6001", "u5408", "u5e76", "u7b56", "u7565", "u3002">>]

\* CORPUS[2]
Doc2 ==
    [title |->
        <<"P", "y", "d", "a", "n", "t", "i", "c", " ", "u6838", "u5fc3">>,
     content |->
        <<"P", "y", "d", "a", "n", "t", "i", "c", " ", "u4f7f", "u7528",
          "u7c7b", "u578b", "u6ce8", "u89e3", "u8fdb", "u884c", "u6570",
          "u636e", "u9a8c", "u8bc1", "u4e0e", "u8f6c", "u6362", "uff0c", "B",
          "a", "s", "e", "M", "o", "d", "e", "l", " ", "u8d1f", "u8d23",
          "u7ed3", "u6784", "u5316", "u6821", "u9a8c", "u3002">>]

\* CORPUS[3]
Doc3 ==
    [title |->
        <<"R", "A", "G", " ", "u5b9a", "u4e49">>,
     content |->
        <<"R", "A", "G", " ", "u901a", "u8fc7", "u68c0", "u7d22", "u76f8",
          "u5173", "u6587", "u6863", "uff0c", "u518d", "u7ed3", "u5408",
          "u751f", "u6210", "u6a21", "u578b", "u8fd4", "u56de", "u7b54",
          "u6848", "uff0c", "u5e38", "u89c1", "u6b65", "u9aa4", "u5305",
          "u542b", "u67e5", "u8be2", "u3001", "u68c0", "u7d22", "u3001",
          "u91cd", "u6392", "u4e0e", "u5408", "u6210", "u3002">>]

\* CORPUS[4]
Doc4 ==
    [title |->
        <<"u5411", "u91cf", "u68c0", "u7d22", "u4e0e", "u5173", "u952e",
          "u8bcd">>,
     content |->
        <<"u771f", "u5b9e", "u7cfb", "u7edf", "u5e38", "u7528", "u5411",
          "u91cf", "u68c0", "u7d22", "uff0c", "u793a", "u4f8b", "u4e2d",
          "u7528", "u7b80", "u5355", "u5173", "u952e", "u8bcd", "u8ba1",
          "u6570", "u6765", "u6a21", "u62df", "u76f8", "u4f3c", "u5ea6",
          "u3002">>]

CORPUS == <<Doc1, Doc2, Doc3, Doc4>>

\* the answer of synthesize without documents, and the head of the other one
NoInfoAnswer ==
    <<"u6ca1", "u6709", "u627e", "u5230", "u76f8", "u5173", "u4fe1", "u606f",
      "uff0c", "u8bf7", "u63d0", "u4f9b", "u66f4", "u5177", "u4f53", "u7684",
      "u63cf", "u8ff0", "u3002">>
AnswerHead ==
    <<"u6839", "u636e", "u68c0", "u7d22", "u7ed3", "u679c", "uff0c", "u6211",
      "u627e", "u5230", "u4ee5", "u4e0b", "u4fe1", "u606f", "uff1a", "\n">>

\* the most words of a query
MaxQueryWords == 2

\* the words of the queries: RAG, LangGraph, pydantic, a two-character word
\* of the corpus ("retrieval") and one that the corpus does not hold ("use",
\* of the second example of run_demo)
QueryWords ==
    { <<"R", "A", "G">>,
      <<"L", "a", "n", "g", "G", "r", "a", "p", "h">>,
      <<"p", "y", "d", "a", "n", "t", "i", "c">>,
      <<"u68c0", "u7d22">>,
      <<"u7528", "u9014">> }

WordLists == UNION {[1..n -> QueryWords] : n \in 0..MaxQueryWords}

\* " ".join(words)
RECURSIVE JoinWords(_)
JoinWords(words) ==
    IF words = <<>> THEN <<>>
    ELSE IF Len(words) = 1 THEN words[1]
    ELSE words[1] \o <<" ">> \o JoinWords(Tail(words))

\* the query texts: words joined by a space, bare or inside more whitespace
QueryTexts ==
    {JoinWords(w) : w \in WordLists}
        \cup {<<" ">> \o JoinWords(w) \o <<"\t", " ">> : w \in WordLists}

\* the values of user_query in a payload: a text, or a number as in run_demo
QueryValues == {<<"str", q>> : q \in QueryTexts} \cup {<<"int", 123>>, <<"int", 7>>}

\* the values of top_k in a payload: absent, or a number
TopKValues == Optional(0..6)

\* str(n) of a natural number
Digits == <<"0", "1", "2", "3", "4", "5", "6", "7", "8", "9">>
RECURSIVE str(_)
str(n) == IF n < 10 THEN <<Digits[n + 1]>> ELSE str(n \div 10) \o <<Digits[(n % 10) + 1]>>

\* RagState.coerce_query(v): v if isinstance(v, str) else str(v)
coerce_query(v) == IF v[1] = "str" THEN v[2] ELSE str(v[2])

\* str.split(): the maximal runs of characters that are not whitespace
RECURSIVE SplitFrom(_, _, _)
SplitFrom(s, i, word) ==
    IF i > Len(s) THEN (IF word = <<>> THEN <<>> ELSE <<word>>)
    ELSE IF s[i] \in Whitespace
         THEN (IF word = <<>> THEN <<>> ELSE <<word>>) \o SplitFrom(s, i + 1, <<>>)
         ELSE SplitFrom(s, i + 1, Append(word, s[i]))
split(s) == SplitFrom(s, 1, <<>>)

\* text.count(tok) from position i on: the occurrences that do not overlap
RECURSIVE CountFrom(_, _, _)
CountFrom(text, tok, i) ==
    IF i + Len(tok) - 1 > Len(text) THEN 0
    ELSE IF SubSeq(text, i, i + Len(tok) - 1) = tok
         THEN 1 + CountFrom(text, tok, i + Len(tok))
         ELSE CountFrom(text, tok, i + 1)
str_count(text, tok) == CountFrom(text, tok, 1)

\* retrieve, lines 63-67: the tokens of the lowercased query
RECURSIVE CleanTokens(_)
CleanTokens(tokens) ==
    IF tokens = <<>> THEN <<>>
    ELSE LET clean == strip(Head(tokens)) IN
         (IF clean # <<>> THEN <<clean>> ELSE <<>>) \o CleanTokens(Tail(tokens))
query_tokens(user_query) == CleanTokens(split(lower(user_query)))

\* retrieve.score(doc): the sum over the tokens of text.count(tok)
RECURSIVE ScoreLoop(_, _)
ScoreLoop(text, tokens) ==
    IF tokens = <<>> THEN 0
    ELSE str_count(text, Head(tokens)) + ScoreLoop(text, Tail(tokens))
score(doc, tokens) == ScoreLoop(lower(doc.title \o <<" ">> \o doc.content), tokens)

\* variant of InsertSorted: an item goes before the items of its score
RECURSIVE InsertSorted_tiesfirst(_, _)
InsertSorted_tiesfirst(sorted, item) ==
    IF sorted = <<>> THEN <<item>>
    ELSE IF Head(sorted)[2] > item[2]
         THEN <<Head(sorted)>> \o InsertSorted_tiesfirst(Tail(sorted), item)
         ELSE <<item>> \o sorted

\* sorted(..., key=score, reverse=True) is stable: an item goes after the
\* items of a higher or the same score
RECURSIVE InsertSorted(_, _)
InsertSorted(sorted, item) ==
    IF sorted = <<>> THEN <<item>>
    ELSE IF Head(sorted)[2] >= item[2]
         THEN <<Head(sorted)>> \o InsertSorted(Tail(sorted), item)
         ELSE <<item>> \o sorted

RECURSIVE SortedFrom(_, _, _)
SortedFrom(items, i, sorted) ==
    IF i > Len(items) THEN sorted
    ELSE SortedFrom(items, i + 1, InsertSorted(sorted, items[i]))
sorted_by_score(items) == SortedFrom(items, 1, <<>>)

\* the smaller of two numbers
Min(a, b) == IF a <= b THEN a ELSE b

\* the demo's retrieve(state): the update it returns
demo_retrieve(s) ==
    LET tokens == query_tokens(s.user_query) IN
    IF tokens = <<>>
    THEN [retrieved |-> <<>>, steps |-> <<"retrieve">>]
    ELSE LET scored_docs == [i \in 1..Len(CORPUS) |-> <<CORPUS[i], score(CORPUS[i], tokens)>>]
             scored_sorted == sorted_by_score(scored_docs)
             top == SubSeq(scored_sorted, 1, Min(s.top_k, Len(scored_sorted)))
         IN  [retrieved |-> [i \in 1..Len(top) |-> top[i][1]],
              steps |-> <<"retrieve">>]

\* "\n".join(snippets) with snippets "- title: content"
RECURSIVE Snippets(_)
Snippets(docs) ==
    IF docs = <<>> THEN <<>>
    ELSE (<<"-", " ">> \o Head(docs).title \o <<":", " ">> \o Head(docs).content)
         \o (IF Len(docs) > 1 THEN <<"\n">> ELSE <<>>) \o Snippets(Tail(docs))

\* synthesize(state): the update it returns
synthesize(s) ==
    IF s.retrieved = <<>>
    THEN [answer |-> Some(NoInfoAnswer), steps |-> <<"synthesize">>]
    ELSE [answer |-> Some(AnswerHead \o Snippets(s.retrieved)), steps |-> <<"synthesize">>]

\* the channels after app.invoke(inputs): the defaults of RagState, steps and
\* retrieved with the reducer operator.add, the other keys overwritten
InputChannels(inputs) ==
    [steps |-> <<>>, user_query |-> inputs.user_query,
     top_k |-> IF inputs.top_k = None THEN 2 ELSE inputs.top_k[1],
     retrieved |-> <<>>, answer |-> None]

\* RagState(**channels), the state a node is called with: coerce_query, and
\* top_k with ge=1, le=5
ValidateRagState(channels) ==
    IF channels.top_k < 1 \/ channels.top_k > 5
    THEN Raise("ValidationError")
    ELSE Return([channels EXCEPT !.user_query = coerce_query(channels.user_query)])

\* the channels after a node's update: operator.add for steps and retrieved
ApplyUpdate(channels, update) ==
    [k \in DOMAIN channels |->
        IF k \notin DOMAIN update THEN channels[k]
        ELSE IF k \in {"steps", "retrieved"} THEN channels[k] \o update[k]
        ELSE update[k]]

\* run_demo: app.invoke(payload) for the next payload
DemoInvoke ==
    /\ demoNode \in {"none", "END", "failed"}
    /\ \E user_query \in QueryValues, top_k \in TopKValues :
         /\ payload' = [user_query |-> user_query, top_k |-> top_k]
         /\ ragState' = InputChannels([user_query |-> user_query, top_k |-> top_k])
    /\ demoNode' = "retrieve"
    /\ UNCHANGED <<ragVars, concVars, userVars, cliVars, apiVars, tagVars>>

\* the entry node retrieve; a state that RagState rejects ends the
\* invocation with ValidationError
DemoRetrieve ==
    /\ demoNode = "retrieve"
    /\ LET v == ValidateRagState(ragState) IN
       IF v[1] = "raise"
       THEN /\ demoNode' = "failed"
            /\ UNCHANGED ragState
       ELSE /\ ragState' = ApplyUpdate(ragState, demo_retrieve(v[2]))
            /\ demoNode' = "synthesize"
    /\ UNCHANGED <<ragVars, concVars, userVars, cliVars, apiVars, tagVars, payload>>

\* the node synthesize, then END
DemoSynthesize ==
    /\ demoNode = "synthesize"
    /\ ragState' = ApplyUpdate(ragState, synthesize(ValidateRagState(ragState)[2]))
    /\ demoNode' = "END"
    /\ UNCHANGED <<ragVars, concVars, userVars, cliVars, apiVars, tagVars, payload>>

DemoNext ==
    \/ DemoInvoke
    \/ DemoRetrieve
    \/ DemoSynthesize

DemoSpec == Init /\ [][DemoNext]_vars

----------------------------------------------------------------------------
(* Properties                                                              *)

\* RetryCount of the running invocation: state.get("retry_count", 0)
RetryCount == Get(state, "retry_count", 0)

\* the filtered (or retrieved) PassageSet of the state, empty before the first retrieve
Documents == Get(state, "documents", <<>>)

\* the number of occurrences of x in seq
Count(seq, x) == Cardinality({i \in 1..Len(seq) : seq[i] = x})

\* the last node executed in this invocation, "none" at its start
LastNode == IF trace = <<>> THEN "none" ELSE trace[Len(trace)]

\* C1: RetryCount never exceeds MaxRetries, in every state of the flow and
\* so at the moment Generate is entered.
C1_RetryCountBounded == RetryCount <= MAX_RETRIES

C1_Witness == node = "generate" /\ RetryCount = MAX_RETRIES

\* C2: an invocation executes Rewrite at most MaxRetries times and Retrieve at
\* most MaxRetries + 1 times, and every invocation whose external calls all
\* return reaches Done (it stops earlier only by a raised call or Ctrl-C).
C2_Terminates ==
    /\ [](/\ Count(trace, "rewrite_query") <= MAX_RETRIES
          /\ Count(trace, "retrieve") <= MAX_RETRIES + 1)
    /\ (pc = "invoke") ~> (node \in {"END", "raised"} \/ pc = "exited")

C2_Witness ==
    /\ node = "END"
    /\ Count(trace, "rewrite_query") = MAX_RETRIES
    /\ Count(trace, "retrieve") = MAX_RETRIES + 1

\* C3: when the conditional edge is evaluated with no filtered document and
\* RetryCount < MaxRetries, the next node is rewrite_query.
C3_EmptyBelowCeilingRewrites ==
    [][(/\ pc = "invoke"
        /\ node = "decide_to_generate"
        /\ Documents = <<>>
        /\ RetryCount < MAX_RETRIES
        /\ node' # node) => node' = "rewrite_query"]_vars

C3_Witness ==
    /\ node = "rewrite_query"
    /\ LastNode = "decide_to_generate"
    /\ Documents = <<>>
    /\ RetryCount = MAX_RETRIES - 1

\* C4: when the conditional edge is evaluated with no filtered document and
\* RetryCount = MaxRetries, the next node is generate, entered with the empty
\* document list: no error, no further rewrite.
C4_EmptyAtCeilingGenerates ==
    [][(/\ pc = "invoke"
        /\ node = "decide_to_generate"
        /\ Documents = <<>>
        /\ RetryCount = MAX_RETRIES
        /\ node' # node)
       => (/\ node' = "generate"
           /\ error' = "none"
           /\ state' = state
           /\ state'["documents"] = <<>>)]_vars

C4_Witness ==
    /\ node = "generate"
    /\ LastNode = "decide_to_generate"
    /\ Documents = <<>>
    /\ RetryCount = MAX_RETRIES

\* C5: when the conditional edge is evaluated with a filtered document, the
\* next node is generate whatever RetryCount is, and RetryCount keeps its
\* value; a first retrieval with a relevant document goes to generate with
\* RetryCount 0 and no rewrite.
C5_NonEmptyGenerates ==
    [][(/\ pc = "invoke"
        /\ node = "decide_to_generate"
        /\ Documents # <<>>
        /\ node' # node)
       => (/\ node' = "generate"
           /\ RetryCount' = RetryCount
           /\ state' = state
           /\ Count(trace', "rewrite_query") = Count(trace, "rewrite_query")
           /\ (Count(trace, "retrieve") = 1 => RetryCount' = 0))]_vars

C5_Witness ==
    /\ node = "generate"
    /\ LastNode = "decide_to_generate"
    /\ Len(Documents) = 1
    /\ RetryCount = 0
    /\ trace = <<"retrieve", "grade_documents", "decide_to_generate">>

\* the indexes of the retrieved documents graded "yes" in the most recent grading
RelevantIndexes == {i \in 1..Len(retrieved) : scores[i] = GradeDocuments("yes")}

\* the k-th smallest element of the set I of integers
Kth(I, k) == CHOOSE i \in I : Cardinality({j \in I : j <= i}) = k

\* the most recent grading is that of the most recent retrieval
Graded == LastNode \notin {"none", "retrieve"}

\* C6: after grade_documents the document list is the subsequence of the
\* retrieved list made of exactly the documents graded relevant, in retrieval
\* order.
C6_FilteredIsSubsequence ==
    Graded =>
        /\ Len(scores) = Len(retrieved)
        /\ Len(Documents) = Cardinality(RelevantIndexes)
        /\ \A k \in 1..Len(Documents) : Documents[k] = retrieved[Kth(RelevantIndexes, k)]

C6_Witness ==
    /\ LastNode = "grade_documents"
    /\ Len(retrieved) = 2
    /\ retrieved[1] # retrieved[2]
    /\ Documents = retrieved

\* the indexes of the retrieved documents with no judgment (grader returned None)
IndeterminateIndexes == {i \in 1..Len(retrieved) : scores[i] = None}

\* the indexes of the retrieved documents with a grade other than "yes"
NotRelevantIndexes ==
    {i \in 1..Len(retrieved) : scores[i] # None /\ scores[i] # GradeDocuments("yes")}

\* C7: a document whose judgment is unavailable is left out like a document
\* graded not relevant, the documents after it are still graded, and the flow
\* goes on; when no document has a judgment the list is empty and the
\* conditional edge rewrites below the ceiling and generates at it.
C7_IndeterminateDropped ==
    Graded =>
        /\ Len(Documents) = Len(retrieved) - Cardinality(IndeterminateIndexes)
                                           - Cardinality(NotRelevantIndexes)
        /\ \A i \in RelevantIndexes : \E k \in 1..Len(Documents) : Documents[k] = retrieved[i]
        /\ LastNode = "grade_documents" =>
               /\ node = "decide_to_generate"
               /\ error = "none"
               /\ Len(calls) = Len(retrieved)
        /\ (retrieved # <<>> /\ Cardinality(IndeterminateIndexes) = Len(retrieved)) =>
               /\ Documents = <<>>
               /\ (LastNode = "decide_to_generate" /\ node # "raised") =>
                      node = IF RetryCount < MAX_RETRIES THEN "rewrite_query" ELSE "generate"

C7_Witness ==
    /\ LastNode = "decide_to_generate"
    /\ node = "rewrite_query"
    /\ Len(retrieved) = 2
    /\ scores = <<None, None>>

\* C8: RetryCount is 0 when an invocation starts and equals the number of
\* rewrite_query executions of the invocation at every point: rewrite_query
\* adds one, no other node changes it.
C8_RetryCountCountsRewrites ==
    /\ RetryCount = Count(trace, "rewrite_query")
    /\ RetryCount = Len(rewritten)
    /\ trace = <<>> => RetryCount = 0

C8_Witness ==
    /\ node = "grade_documents"
    /\ RetryCount = 2

\* a step of ReadInput that starts the next invocation
NewInvocation == pc = "input" /\ pc' = "invoke"

\* C9: the state carries an answer exactly when the flow is at END, generate
\* has then run exactly once, the answer printed is that answer, and no step
\* of the invocation changes an answer once set.
C9_AnswerSetOnce ==
    /\ []( /\ ("generation" \in DOMAIN state) <=> (node = "END")
           /\ Count(trace, "generate") = (IF node = "END" THEN 1 ELSE 0)
           /\ (output # <<>> /\ output[1] = "answer") =>
                  (node = "END" /\ output[2] = state["generation"]) )
    /\ [][("generation" \in DOMAIN state /\ ~NewInvocation)
          => (state' = state /\ node' = node /\ trace' = trace)]_vars

C9_Witness ==
    /\ node = "END"
    /\ pc = "input"
    /\ RetryCount > 0
    /\ output = <<"answer", state["generation"]>>

\* the nodes whose external call C10 is about
FatalNodes == {"retrieve", "rewrite_query", "generate"}

\* C10: when the call of retrieve, rewrite_query or generate raises, the
\* invocation is over: the error reaches main, which prints it; no node runs
\* again, the failed one included, and the state gets no answer.
C10_FailureEndsInvocation ==
    /\ []( /\ (error \in FatalNodes) => node = "raised"
           /\ (node = "raised" /\ error \in FatalNodes) =>
                  /\ "generation" \notin DOMAIN state
                  /\ pc = "input" => output = <<"error", error>>
                  /\ pc = "invoke" => output = <<>> )
    /\ [][(node = "raised" /\ error \in FatalNodes /\ ~NewInvocation)
          => (/\ node' = "raised"
              /\ error' = error
              /\ state' = state
              /\ trace' = trace
              /\ calls' = calls)]_vars

C10_Witness ==
    /\ node = "raised"
    /\ error = "rewrite_query"
    /\ pc = "input"
    /\ output = <<"error", "rewrite_query">>

\* n copies of seq, one after the other
RECURSIVE Repeat(_, _)
Repeat(seq, n) == IF n = 0 THEN <<>> ELSE seq \o Repeat(seq, n - 1)

\* seq is an initial part of full
IsPrefix(seq, full) == Len(seq) <= Len(full) /\ seq = SubSeq(full, 1, Len(seq))

\* the nodes of one rewrite cycle
RewriteCycle == <<"retrieve", "grade_documents", "decide_to_generate", "rewrite_query">>

\* the nodes of an invocation none of whose gradings keeps a document
AllEmptyRun ==
    Repeat(RewriteCycle, MAX_RETRIES)
        \o <<"retrieve", "grade_documents", "decide_to_generate", "generate">>

\* C11: when every grading of an invocation leaves no document, the run is
\* MaxRetries rewrite cycles followed by retrieve, grade_documents, the
\* conditional edge, generate and END; generate is entered with the empty
\* list and RetryCount = MaxRetries (3 rewrite cycles).
C11_AllEmptyRun ==
    (Graded /\ Documents = <<>>) =>
        /\ IsPrefix(trace, AllEmptyRun)
        /\ node = "generate" =>
               /\ RetryCount = MAX_RETRIES
               /\ Count(trace, "rewrite_query") = 3
               /\ trace = SubSeq(AllEmptyRun, 1, Len(AllEmptyRun) - 1)
        /\ node = "END" => (trace = AllEmptyRun /\ RetryCount = MAX_RETRIES)
        /\ trace = AllEmptyRun => node = "END"

C11_Witness ==
    /\ node = "END"
    /\ Documents = <<>>
    /\ trace = AllEmptyRun
    /\ handed["generator"]["context"] = <<>>

\* the node changes of the flow: <<from, to>>
FlowEdges ==
    { <<"retrieve", "grade_documents">>,
      <<"grade_documents", "decide_to_generate">>,
      <<"decide_to_generate", "rewrite_query">>,
      <<"decide_to_generate", "generate">>,
      <<"rewrite_query", "retrieve">>,
      <<"generate", "END">> }

\* the last n entries of seq (all of seq when it is shorter)
LastN(seq, n) == SubSeq(seq, IF Len(seq) > n THEN Len(seq) - n + 1 ELSE 1, Len(seq))

\* C12: within an invocation the node changes only along retrieve ->
\* grade_documents -> conditional edge -> rewrite_query or generate,
\* rewrite_query -> retrieve and generate -> END (a raised call ends the
\* invocation instead); a node runs again only after a rewrite_query; generate
\* is entered right after a retrieval and grading made with the current
\* question; nothing follows END.
C12_OnlyFlowEdges ==
    /\ [][(node' # node /\ ~NewInvocation /\ node' # "raised")
          => <<node, node'>> \in FlowEdges]_vars
    /\ [][(node = "END" /\ ~NewInvocation)
          => (node' = "END" /\ state' = state /\ trace' = trace)]_vars
    /\ []( /\ \A i, j \in 1..Len(trace) :
                (i < j /\ trace[i] = trace[j]) =>
                    \E k \in i..j : trace[k] = "rewrite_query"
           /\ node = "generate" =>
                /\ LastN(trace, 3) = <<"retrieve", "grade_documents", "decide_to_generate">>
                /\ handed["retriever"]["question"] = state["question"]
                /\ retrieved # <<>> => handed["grader"]["question"] = state["question"]
                /\ retrieved = <<>> => "grader" \notin DOMAIN handed )

C12_Witness ==
    /\ pc = "invoke"
    /\ node = "END"
    /\ RetryCount = 2
    /\ Documents # <<>>

\* C13: the document list is replaced at each retrieval and grading: after a
\* retrieval it is the list just retrieved, after a grading it holds only
\* documents of that list, and the context handed to the generator is that
\* list, so it holds no document of an earlier cycle.
C13_PassagesReplaced ==
    /\ LastNode = "retrieve" => Documents = retrieved
    /\ Graded =>
           /\ Len(Documents) <= Len(retrieved)
           /\ Range(Documents) \subseteq Range(retrieved)
    /\ "generator" \in DOMAIN handed =>
           /\ handed["generator"]["context"] = Documents
           /\ Len(handed["generator"]["context"]) <= Len(retrieved)
           /\ Range(handed["generator"]["context"]) \subseteq Range(retrieved)

C13_Witness ==
    /\ node = "END"
    /\ RetryCount = 1
    /\ Len(retrieved) = 2
    /\ Len(handed["generator"]["context"]) = 1

\* C14: a grading calls the grader exactly once for each retrieved document,
\* in order, each time with the current question and that document alone, and
\* goes on after a document graded relevant: every document has its own result.
C14_OneGraderCallPerDocument ==
    LastNode = "grade_documents" =>
        /\ Len(calls) = Len(retrieved)
        /\ \A i \in 1..Len(calls) :
               calls[i] = Call("grader", state["question"], retrieved[i])
        /\ Len(scores) = Len(retrieved)
        /\ \A i \in 1..Len(retrieved) :
               (scores[i] = GradeDocuments("yes")) => retrieved[i] \in Range(Documents)

C14_Witness ==
    /\ LastNode = "grade_documents"
    /\ Len(retrieved) = 2
    /\ scores[1] = GradeDocuments("yes")
    /\ scores[2] = GradeDocuments("no")
    /\ Len(calls) = 2

\* the generator was called with no document
GeneratedWithoutContext ==
    "generator" \in DOMAIN handed /\ handed["generator"]["context"] = <<>>

\* C16 as stated: an answer generated with no document says that the
\* question cannot be answered.
C16_EmptyContextSaysDontKnow ==
    (node = "END" /\ GeneratedWithoutContext) => state["generation"] = "dont_know"

\* C16, amended: with no document the generator is called (at the retry
\* ceiling) with the current question and the empty context, and the answer
\* is what the generator returned, whatever it is.
C16_EmptyContextAnswerIsGeneratorOutput ==
    GeneratedWithoutContext =>
        /\ node = "END"
        /\ RetryCount = MAX_RETRIES
        /\ handed["generator"]["question"] = state["question"]
        /\ handed["generator"]["result"] \in Answers
        /\ state["generation"] = handed["generator"]["result"]

C16_Witness ==
    /\ GeneratedWithoutContext
    /\ node = "END"
    /\ handed["generator"]["result"] = "answer"
    /\ state["generation"] = "answer"

\* the question after the rewrites made so far
CurrentQuery == IF rewritten = <<>> THEN asked ELSE rewritten[Len(rewritten)]

\* the question before the most recent rewrite
PreviousQuery == IF Len(rewritten) <= 1 THEN asked ELSE rewritten[Len(rewritten) - 1]

\* C19: the question of the state is the user's question after the rewrites
\* made so far, each rewrite being applied to the question before it; the
\* retriever, the grader and the generator are handed that question; the
\* state has no key that keeps the original question.
C19_CurrentQueryUsed ==
    node # "none" =>
        /\ state["question"] = CurrentQuery
        /\ Len(rewritten) = RetryCount
        /\ DOMAIN state \subseteq {"question", "documents", "retry_count", "generation"}
        /\ "rewriter" \in DOMAIN handed =>
               /\ LastNode = "rewrite_query"
               /\ handed["rewriter"]["question"] = PreviousQuery
               /\ handed["retriever"]["question"] = PreviousQuery
        /\ "rewriter" \notin DOMAIN handed =>
               \A c \in DOMAIN handed : handed[c]["question"] = CurrentQuery

C19_Witness ==
    /\ node = "END"
    /\ asked = <<"a">>
    /\ rewritten = << <<"a">>, <<"c">> >>
    /\ handed["generator"]["question"] = <<"c">>
    /\ state["question"] = <<"c">>

\* C15: the GraphState of an invocation is its own. An invocation starts
\* from its question alone (RetryCount 0, no answer), also when an earlier
\* invocation has ended before it; while two invocations interleave, a step
\* of one leaves the other as it is, and the question, RetryCount and answer
\* of each are those that follow from its own calls.
C15_InvocationsIsolated ==
    /\ [](\A i \in Invocations :
            LET f == flows[i] IN
            f.node # "none" =>
                /\ f.state["question"] = f.query
                /\ Get(f.state, "retry_count", 0) = f.rewrites
                /\ ("generation" \in DOMAIN f.state) <=> (f.node = "END")
                /\ f.node = "END" => f.state["generation"] = f.answer
                /\ (f.node = "retrieve" /\ f.rewrites = 0) =>
                       f.state = [question |-> f.asked])
    /\ [][\A i, j \in Invocations :
            (i # j /\ flows'[i] # flows[i]) => flows'[j] = flows[j]]_vars

C15_Witness ==
    /\ flows["A"].node = "END"
    /\ flows["A"].rewrites = 2
    /\ flows["A"].state["question"] = <<"c">>
    /\ flows["B"].node = "decide_to_generate"
    /\ flows["B"].rewrites = 0
    /\ flows["B"].state["question"] = <<" ", "q">>
    /\ flows["B"].state["documents"] # flows["A"].state["documents"]

\* every character of s is whitespace (so for the empty s)
OnlyWhitespace(s) == \A i \in 1..Len(s) : s[i] \in Whitespace

\* s without its leading and trailing whitespace, for s with another character
Trimmed(s) ==
    LET keep == {i \in 1..Len(s) : s[i] \notin Whitespace}
        first == CHOOSE i \in keep : \A j \in keep : i <= j
        last == CHOOSE i \in keep : \A j \in keep : j <= i
    IN  SubSeq(s, first, last)

\* C17: the name of an accepted User is the given name without its leading
\* and trailing whitespace, and is not empty; a name of whitespace only is
\* rejected with a validation error, at construction and at assignment, and
\* the User held keeps its name.
C17_NameStrippedNonEmpty ==
    /\ user # None =>
           /\ user[1].name # <<>>
           /\ user[1].name[1] \notin Whitespace
           /\ user[1].name[Len(user[1].name)] \notin Whitespace
    /\ validation.op # "none" =>
           /\ OnlyWhitespace(validation.input) => validation.outcome = "ValidationError"
           /\ validation.outcome = "ok" => user[1].name = Trimmed(validation.input)
           /\ validation.op = "assign" =>
                  (validation.outcome = "ok" <=> ~OnlyWhitespace(validation.input))

C17_Witness ==
    /\ validation.op = "assign"
    /\ validation.input = <<" ", "\t">>
    /\ validation.outcome = "ValidationError"
    /\ user # None
    /\ user[1].name = <<"A", " ", "A">>

\* C18: read_json_source raises the conflict error whenever both a path and
\* inline JSON are passed, whatever their values, and then reads neither the
\* file nor standard input; with neither passed it returns the text of
\* standard input.
C18_ConflictWheneverBothPassed ==
    call.op = "read_json_source" =>
        /\ (call.path # None /\ call.inline_json # None) =>
               /\ call.result = Raise("ValueError")
               /\ call.reads = {}
        /\ (call.path = None /\ call.inline_json = None) =>
               /\ call.result = Return(call.stdin)
               /\ call.reads = {"stdin"}

\* C20: over every sequence of create_user and get_user requests, a create
\* of a User whose id is stored answers 400 and leaves the store as it was,
\* so the User stored under an id is the first one created with it; a get
\* answers 200 with the stored User for a stored id and 404 for any other id,
\* and leaves the store as it was.
C20_StoreKeepsFirstCreated ==
    /\ [](database = firstCreated)
    /\ [][LET req == request' IN
          /\ (req.op = "create" /\ ValidateUser(req.body)[1] = "return"
                /\ req.body.id \in DOMAIN database) =>
                 /\ response'.status = 400
                 /\ database' = database
          /\ (req.op = "create" /\ ValidateUser(req.body)[1] = "return"
                /\ req.body.id \notin DOMAIN database) =>
                 /\ response' = Ok(ValidateUser(req.body)[2])
                 /\ DOMAIN database' = DOMAIN database \cup {req.body.id}
                 /\ \A i \in DOMAIN database : database'[i] = database[i]
          /\ req.op = "get" =>
                 /\ database' = database
                 /\ req.user_id \in DOMAIN database =>
                        response' = Ok(database[req.user_id])
                 /\ req.user_id \notin DOMAIN database =>
                        response'.status = 404]_apiVars

C20_Witness ==
    /\ request.op = "create"
    /\ request.body.id = 1
    /\ request.body.name = <<"A", "A">>
    /\ response.status = 400
    /\ 1 \in DOMAIN database
    /\ database[1].name = <<"A">>
    /\ 2 \in DOMAIN database

\* the position of the first occurrence of tag t in the list s
FirstIndex(s, t) == CHOOSE i \in 1..Len(s) : s[i] = t /\ \A j \in 1..(i-1) : s[j] # t

\* C21: the validated tags hold each distinct given tag exactly once, in the
\* order of the first occurrences in the given list, and validating the
\* validated tags again gives the same list.
C21_TagsUniqueInFirstOrder ==
    /\ [](/\ Range(tags) = Range(tagsGiven)
          /\ Len(tags) = Cardinality(Range(tagsGiven))
          /\ \A k, l \in 1..Len(tags) :
                 k < l => FirstIndex(tagsGiven, tags[k]) < FirstIndex(tagsGiven, tags[l])
          /\ unique_tags(tags) = tags)
    /\ [][tagsGiven' = tags => tags' = tags]_tagVars

C21_Witness ==
    /\ tagsGiven = <<"b", "a", "b", "A">>
    /\ tags = <<"b", "a", "A">>

\* the position of a document in CORPUS
CorpusIndex(doc) == CHOOSE i \in 1..Len(CORPUS) : CORPUS[i] = doc

\* the tokens of the query of the current invocation
DemoTokens == query_tokens(coerce_query(ragState.user_query))

\* C22: an invocation of the demo that RagState accepts runs retrieve, then
\* synthesize, each once, so that steps ends as [retrieve, synthesize];
\* retrieve yields no document for a query without tokens and otherwise
\* min(top_k, size of CORPUS) documents, a document of a higher score before
\* one of a lower score and documents of one score in the order of CORPUS;
\* the answer is the fixed "no relevant information" text exactly when no
\* document was retrieved.
C22_DemoRetrievesTopKThenSynthesizes ==
    /\ demoNode = "retrieve" => ragState.steps = <<>> /\ ragState.retrieved = <<>>
    /\ demoNode = "failed" => ragState.steps = <<>> /\ ragState.top_k \notin 1..5
    /\ demoNode = "synthesize" =>
           ragState.steps = <<"retrieve">> /\ ragState.answer = None
    /\ demoNode = "END" => ragState.steps = <<"retrieve", "synthesize">>
    /\ demoNode \in {"synthesize", "END"} =>
           LET r == ragState.retrieved IN
           /\ DemoTokens = <<>> => r = <<>>
           /\ DemoTokens # <<>> =>
                  /\ Len(r) = Min(ragState.top_k, Len(CORPUS))
                  /\ \A k \in 1..Len(r) : r[k] \in Range(CORPUS)
                  /\ \A k, l \in 1..Len(r) :
                         k < l =>
                             \/ score(r[k], DemoTokens) > score(r[l], DemoTokens)
                             \/ /\ score(r[k], DemoTokens) = score(r[l], DemoTokens)
                                /\ CorpusIndex(r[k]) < CorpusIndex(r[l])
    /\ demoNode = "END" =>
           /\ ragState.answer # None
           /\ (ragState.answer = Some(NoInfoAnswer)) <=> (ragState.retrieved = <<>>)

C22_Witness ==
    /\ demoNode = "END"
    /\ payload.user_query = <<"str", <<"L", "a", "n", "g", "G", "r", "a", "p", "h", " ", "R", "A", "G">> >>
    /\ ragState.top_k = 5
    /\ ragState.retrieved = <<Doc1, Doc3, Doc2, Doc4>>
    /\ ragState.steps = <<"retrieve", "synthesize">>
    /\ ragState.answer # Some(NoInfoAnswer)

====
